---- MODULE Spec2Model ----
(***************************************************************************)
(* Model of the ink! contract `my_contract` (src/lib.rs): a storage map    *)
(* registrations: Mapping<AccountId, bool>, the message                    *)
(* register_with_signature and the message is_registered.                  *)
(*                                                                         *)
(* The host executes one message at a time (&mut self): clients submit     *)
(* calls, the calls wait in the host's pool, and the host runs each call   *)
(* from its first to its last statement before it starts another one.      *)
(* The contract compiles in two ways, with and without cfg(test); the      *)
(* build is fixed when the contract is instantiated.                       *)
(***************************************************************************)
EXTENDS Integers, FiniteSets, Sequences, TLC

\* ------------------------------------------------------------------ bounds
\* number of calls a client can have in flight at the same time
NumCalls == 2
\* cap of the per-identity counter of successful registrations
MaxOk == 2

\* ------------------------------------------------------------ input values
\* accounts of ink::env::test::default_accounts used by the tests
Accounts == {"alice", "bob"}

\* the byte strings the tests use as messages
Messages == {"Register me", "Invalid message"}

\* ink::env::hash_bytes::<Blake2x256>: a 32 byte digest, one per input
Blake2x256(message) ==
    [kind |-> "blake2x256", signer |-> "none", of |-> message]

\* ink_e2e keypair signature: 64 bytes, bound to the signer and the message
Sr25519Sign(signer, message) ==
    [kind |-> "sr25519", signer |-> signer, of |-> message]

\* tests::sign_message: the digest of the message, the signer is ignored
sign_message(message, signer) == Blake2x256(message)

\* tests::create_invalid_signature: the digest of b"Invalid message"
create_invalid_signature == Blake2x256("Invalid message")

\* the signature arguments clients present
Signatures ==
    {sign_message(m, a) : m \in Messages, a \in Accounts}
      \cup {create_invalid_signature}
      \cup {Sr25519Sign(a, m) : a \in Accounts, m \in Messages}

\* ----------------------------------------------------------------- storage
\* Mapping::default(): no key has a value
Mapping_default == [a \in {} |-> TRUE]

\* mutant: the key is ignored, the value is written to every account
insert_AnyKey(self, key, value) == [a \in Accounts |-> value]

\* Mapping::insert(key, &value)
insert(self, key, value) ==
    [a \in (DOMAIN self) \cup {key} |-> IF a = key THEN value ELSE self[a]]

\* mutant: a missing record reads as true
is_registered_DefaultTrue(self, account) ==
    IF account \in DOMAIN self THEN self[account] ELSE TRUE

\* is_registered: registrations.get(account).unwrap_or(false)
is_registered(self, account) ==
    IF account \in DOMAIN self THEN self[account] ELSE FALSE

\* MyContract::new()
new == Mapping_default

\* ------------------------------------------------- register_with_signature
\* mutant: a repeated call clears the record
register_Clears(self, caller, message, signature, test) ==
    IF is_registered(self, caller)
    THEN [result |-> "AlreadyRegistered",
          registrations |-> insert(self, caller, FALSE)]
    ELSE IF test /\ signature # Blake2x256(message)
    THEN [result |-> "InvalidSignature", registrations |-> self]
    ELSE IF ~test
    THEN [result |-> "InvalidSignature", registrations |-> self]
    ELSE [result |-> "Ok", registrations |-> insert(self, caller, TRUE)]

\* mutant: the registration check is missing
register_NoCheck(self, caller, message, signature, test) ==
    IF test /\ signature # Blake2x256(message)
    THEN [result |-> "InvalidSignature", registrations |-> self]
    ELSE IF ~test
    THEN [result |-> "InvalidSignature", registrations |-> self]
    ELSE [result |-> "Ok", registrations |-> insert(self, caller, TRUE)]

\* mutant: the record is written before the signature is checked
register_EarlyInsert(self, caller, message, signature, test) ==
    IF is_registered(self, caller)
    THEN [result |-> "AlreadyRegistered", registrations |-> self]
    ELSE IF test /\ signature # Blake2x256(message)
    THEN [result |-> "InvalidSignature",
          registrations |-> insert(self, caller, TRUE)]
    ELSE IF ~test
    THEN [result |-> "InvalidSignature",
          registrations |-> insert(self, caller, TRUE)]
    ELSE [result |-> "Ok", registrations |-> insert(self, caller, TRUE)]

\* mutant: the signature is checked before the registration status
register_SigFirst(self, caller, message, signature, test) ==
    IF test /\ signature # Blake2x256(message)
    THEN [result |-> "InvalidSignature", registrations |-> self]
    ELSE IF ~test
    THEN [result |-> "InvalidSignature", registrations |-> self]
    ELSE IF is_registered(self, caller)
    THEN [result |-> "AlreadyRegistered", registrations |-> self]
    ELSE [result |-> "Ok", registrations |-> insert(self, caller, TRUE)]

\* mutant: the production block does not return
register_ProdFallsThrough(self, caller, message, signature, test) ==
    IF is_registered(self, caller)
    THEN [result |-> "AlreadyRegistered", registrations |-> self]
    ELSE IF test /\ signature # Blake2x256(message)
    THEN [result |-> "InvalidSignature", registrations |-> self]
    ELSE [result |-> "Ok", registrations |-> insert(self, caller, TRUE)]

\* register_with_signature(&mut self, message, signature) with
\* caller = self.env().caller(); test is cfg(test)
register_with_signature(self, caller, message, signature, test) ==
    IF is_registered(self, caller)
    THEN [result |-> "AlreadyRegistered", registrations |-> self]
    ELSE LET output == Blake2x256(message) IN
         IF test /\ signature # output
         THEN [result |-> "InvalidSignature", registrations |-> self]
         ELSE IF ~test
         THEN [result |-> "InvalidSignature", registrations |-> self]
         ELSE [result |-> "Ok", registrations |-> insert(self, caller, TRUE)]

\* -------------------------------------------------------------------- state
VARIABLES
    cfg_test,       \* TRUE: the build has cfg(test), FALSE: production build
    registrations,  \* the storage field MyContract.registrations
    calls,          \* the host's pool: slot -> call (free, pending or done)
    last,           \* the message the host executed most recently
    pre,            \* registrations before that message
    okCount         \* per identity: register calls that returned Ok

vars == <<cfg_test, registrations, calls, last, pre, okCount>>

Slots == 1..NumCalls

NoSig == [kind |-> "none", signer |-> "none", of |-> ""]

NoCall == [status |-> "free", caller |-> "none", message |-> "",
           signature |-> NoSig, result |-> "none", observed |-> FALSE,
           overlap |-> {}]

NoOp == [op |-> "none", caller |-> "none", message |-> "",
         signature |-> NoSig, result |-> "none", observed |-> FALSE,
         flag |-> FALSE]

Init ==
    /\ cfg_test \in BOOLEAN
    /\ registrations = new
    /\ calls = [i \in Slots |-> NoCall]
    /\ last = NoOp
    /\ pre = new
    /\ okCount = [a \in Accounts |-> 0]

\* the host runs register_with_signature for `caller` from start to end
Run(caller, message, signature) ==
    /\ okCount[caller] < MaxOk
    /\ LET r == register_with_signature(registrations, caller, message,
                                        signature, cfg_test)
           seen == is_registered(registrations, caller)
       IN /\ registrations' = r.registrations
          /\ pre' = registrations
          /\ last' = [op |-> "register", caller |-> caller,
                      message |-> message, signature |-> signature,
                      result |-> r.result, observed |-> seen, flag |-> FALSE]
          /\ okCount' = [okCount EXCEPT ![caller] =
                           IF r.result = "Ok" THEN @ + 1 ELSE @]
    /\ UNCHANGED cfg_test

\* a call that is executed as soon as it is sent
Register(caller, message, signature) ==
    /\ Run(caller, message, signature)
    /\ UNCHANGED calls

\* the host runs is_registered(account)
Query(account) ==
    /\ last' = [op |-> "is_registered", caller |-> account, message |-> "",
                signature |-> NoSig, result |-> "none", observed |-> FALSE,
                flag |-> is_registered(registrations, account)]
    /\ pre' = registrations
    /\ UNCHANGED <<cfg_test, registrations, calls, okCount>>

Next ==
    \/ \E a \in Accounts, m \in Messages, s \in Signatures :
          Register(a, m, s)
    \/ \E a \in Accounts : Query(a)

Spec == Init /\ [][Next]_vars

\* ------------------------------------------------ calls waiting in the pool
\* the signatures a client presents for its own call in the pool
\* specification: the two ways of signing, and the invalid one
ClientSignatures(caller, message) ==
    {sign_message(message, caller), Sr25519Sign(caller, message),
     create_invalid_signature}

\* a client signs and sends a register_with_signature call
Submit(i, caller, message, signature) ==
    /\ calls[i].status = "free"
    /\ calls' = [calls EXCEPT ![i] =
                   [status |-> "pending", caller |-> caller,
                    message |-> message, signature |-> signature,
                    result |-> "none", observed |-> FALSE, overlap |-> {}]]
    /\ UNCHANGED <<cfg_test, registrations, last, pre, okCount>>

\* the host takes the pending call of slot i and runs it; the calls still
\* pending at that moment are the ones it overlaps with
Execute(i) ==
    /\ calls[i].status = "pending"
    /\ Run(calls[i].caller, calls[i].message, calls[i].signature)
    /\ calls' = [calls EXCEPT ![i] =
                   [@ EXCEPT !.status = "done", !.result = last'.result,
                             !.observed = last'.observed,
                             !.overlap = {j \in Slots \ {i} :
                                            calls[j].status = "pending"}]]

\* the client collects the result of a finished call; the slot is free again
Retire(i) ==
    /\ calls[i].status = "done"
    /\ calls' = [j \in Slots |->
                   IF j = i THEN NoCall
                   ELSE [calls[j] EXCEPT !.overlap = @ \ {i}]]
    /\ UNCHANGED <<cfg_test, registrations, last, pre, okCount>>

NextHost ==
    \/ \E i \in Slots, a \in Accounts, m \in Messages :
          \E s \in ClientSignatures(a, m) : Submit(i, a, m, s)
    \/ \E i \in Slots : Execute(i)
    \/ \E i \in Slots : Retire(i)

SpecHost == Init /\ [][NextHost]_vars

\* ------------------------------------------------------------- properties
Errors == {"AlreadyRegistered", "InvalidSignature"}

\* the signatures made for `signer` over `message`, by the unit tests'
\* sign_message or by the signer's keypair
SignedBy(signer, message) ==
    {sign_message(message, signer), Sr25519Sign(signer, message)}

\* the signature of a call is one made for its caller over its message
Valid(caller, message, signature) == signature \in SignedBy(caller, message)

\* register calls of last.caller that returned Ok before the last call
okBefore ==
    IF last.result = "Ok" THEN okCount[last.caller] - 1
    ELSE okCount[last.caller]

\* C1: Registered is terminal: in every step, an identity that is
\* registered stays registered and no record is removed from the map.
C1_RegisteredIsTerminal ==
    [][\A id \in Accounts :
          /\ is_registered(registrations, id)
               => is_registered(registrations', id)
          /\ id \in DOMAIN registrations => id \in DOMAIN registrations']_vars

\* C1 witness: a registered caller tried again and is still registered
C1_Witness ==
    /\ last.op = "register"
    /\ last.observed
    /\ is_registered(registrations, last.caller)

\* C2: at most one register call per identity returns Ok, and every call
\* of an identity after its successful one returns AlreadyRegistered.
C2_AtMostOnceSuccess ==
    /\ \A id \in Accounts : okCount[id] <= 1
    /\ (last.op = "register" /\ okBefore >= 1)
          => last.result = "AlreadyRegistered"

\* C2 witness: an identity that succeeded once called again
C2_Witness ==
    /\ last.op = "register"
    /\ okCount[last.caller] = 1
    /\ last.result = "AlreadyRegistered"

\* C3: a register call that returns an error leaves the registrations map
\* as it was, and is_registered(caller) in particular.
C3_NoSideEffectOnFailure ==
    (last.op = "register" /\ last.result \in Errors)
       => /\ registrations = pre
          /\ is_registered(registrations, last.caller)
               = is_registered(pre, last.caller)

\* C3 witness: a call failed with InvalidSignature on a map that is not empty
C3_Witness ==
    /\ last.op = "register"
    /\ last.result = "InvalidSignature"
    /\ DOMAIN pre # {}

\* C4: a register call of an unregistered caller with a valid signature for
\* the message returns Ok and the caller is registered afterwards.
C4_ValidSignatureRegisters ==
    (/\ last.op = "register"
     /\ ~is_registered(pre, last.caller)
     /\ Valid(last.caller, last.message, last.signature))
       => /\ last.result = "Ok"
          /\ is_registered(registrations, last.caller)

\* C5: signature binding: a call returns Ok only with a signature made for
\* its caller over its message; an unregistered caller who presents a
\* signature made for another identity over the same message, or one made
\* over another message, gets InvalidSignature and stays unregistered.
C5_SignatureBinding ==
    last.op = "register" =>
       /\ last.result = "Ok"
            => Valid(last.caller, last.message, last.signature)
       /\ (/\ ~is_registered(pre, last.caller)
           /\ \/ \E a \in Accounts \ {last.caller} :
                    last.signature \in SignedBy(a, last.message)
              \/ \E a \in Accounts, m \in Messages \ {last.message} :
                    last.signature \in SignedBy(a, m))
            => /\ last.result = "InvalidSignature"
               /\ ~is_registered(registrations, last.caller)

\* C6: is_registered(id) is false, in the initial state and in every later
\* one, for every identity without a successful register call; the query
\* returns false for it and no error.
C6_UnknownIdentityIsFalse ==
    /\ \A id \in Accounts :
          okCount[id] = 0 => is_registered(registrations, id) = FALSE
    /\ (last.op = "is_registered" /\ okCount[last.caller] = 0)
          => last.flag = FALSE

\* C6 witness: a query for an identity without a record, while another
\* identity has one
C6_Witness ==
    /\ last.op = "is_registered"
    /\ last.caller \notin DOMAIN registrations
    /\ DOMAIN registrations # {}

\* C7: the registration check comes first: a registered caller gets
\* AlreadyRegistered also with an invalid signature, and InvalidSignature
\* is returned only to callers that are not registered.
C7_StatusCheckFirst ==
    last.op = "register" =>
       /\ is_registered(pre, last.caller)
            => last.result = "AlreadyRegistered"
       /\ last.result = "InvalidSignature"
            => ~is_registered(pre, last.caller)

\* C7 witness: a registered caller called with a signature that is not the
\* one the build accepts
C7_Witness ==
    /\ last.op = "register"
    /\ is_registered(pre, last.caller)
    /\ last.signature # Blake2x256(last.message)
    /\ last.result = "AlreadyRegistered"

\* C8: two register calls of one identity that are in the pool together,
\* both with valid signatures, the identity being unregistered when the
\* first of them runs: exactly one returns Ok and the other one returns
\* AlreadyRegistered.
C8_ExactlyOneOfTwoSucceeds ==
    \A i \in Slots, j \in Slots :
       (/\ i # j
        /\ calls[i].status = "done" /\ calls[j].status = "done"
        /\ calls[i].caller = calls[j].caller
        /\ j \in calls[i].overlap
        /\ ~calls[i].observed
        /\ Valid(calls[i].caller, calls[i].message, calls[i].signature)
        /\ Valid(calls[j].caller, calls[j].message, calls[j].signature))
         => \/ calls[i].result = "Ok" /\ calls[j].result = "AlreadyRegistered"
            \/ calls[j].result = "Ok" /\ calls[i].result = "AlreadyRegistered"

C10_Frame ==
    /\ last.op = "register" =>
          \A d \in Accounts \ {last.caller} :
             /\ (d \in DOMAIN registrations) = (d \in DOMAIN pre)
             /\ is_registered(registrations, d) = is_registered(pre, d)
    /\ last.op = "is_registered" => registrations = pre

\* C10 witness: a call registered its caller and another identity is still
\* unregistered
C10_Witness ==
    /\ last.op = "register"
    /\ last.result = "Ok"
    /\ \E d \in Accounts \ {last.caller} : d \notin DOMAIN registrations

====
